---- MODULE Spec2Model ----
(***************************************************************************)
(* Model of the multipart upload pipeline of gostratum/storagex            *)
(* (internal/s3/multipart.go): MultipartUploader.Upload, uploadParts,      *)
(* partUploadWorker, chunkReader and the store calls they issue.           *)
(*                                                                         *)
(* One upload call is modelled: the caller's goroutine (Upload and the     *)
(* result loop of uploadParts), the chunkReader goroutine, Concurrency     *)
(* partUploadWorker goroutines and the goroutine that closes resultChan.   *)
(* Channels are Go buffered channels: a send needs a free slot, a receive  *)
(* takes the head, a receive on a closed and empty channel reports !ok.    *)
(* A Go select with several ready cases may take any of them.              *)
(***************************************************************************)
EXTENDS Integers, Sequences, FiniteSets, Bags, TLC

\* Bounds of the model. In Spec, sizes are counted in blocks of the minimum
\* part size; in PlanSpec, part sizes are in MiB.
MaxLen == 3
MaxPartSize == 2
MaxConc == 2
MaxDelta == 1
MaxPutters == 2
\* source length of the runs checked for termination
MaxOkLen == 5
\* source length of the runs checked for goroutines left behind
MaxFailLen == 4
\* goroutines calling the lifecycle proxy
MaxCallers == 2

\* MultipartUpload: 5<<20, the minimum part size, in MiB
MinPartSizeMiB == 5
\* ValidateConfig / MultipartConfig: 5<<30, the maximum part size, in MiB
S3MaxPartSizeMiB == 5120
\* MultipartUpload: the concurrency used when cfg.Concurrency <= 0
FallbackConcurrency == 4
\* DefaultConfig: DefaultPartSize (8<<20, in MiB) and DefaultParallel
DefaultPartSizeMiB == 8
DefaultParallel == 4

VARIABLES
    requested,         \* the cfg argument as the caller passed it
    uploadToken,       \* cfg.UploadToken
    srcLen,            \* bytes the source holds
    partSize,          \* cfg.PartSizeBytes
    concurrency,       \* cfg.Concurrency
    ctxDone,           \* the caller's ctx is cancelled / timed out
    pcU,               \* position of Upload / uploadParts in the caller's goroutine
    err,               \* Upload's err variable (read by the deferred abort)
    parts,             \* uploadParts' parts slice
    ret,               \* what Upload returned
    partChan, partChanClosed,
    resultChan, resultChanClosed,
    chunker,           \* chunkReader's locals and position
    workers,           \* the partUploadWorker goroutines: a bag of their
                       \* locals and positions (the workers are interchangeable)
    createCalls, completeCalls, abortCalls,  \* store calls issued so far
    completeParts,     \* the sorted parts Upload took the etags from
    completeReq,       \* the CompletedPart list CompleteMultipart sent
    putCalls,          \* whole-object puts issued by the upload
    emitted,           \* tasks chunkReader sent, in order
    started,           \* part numbers uploadPart was called with, in order
    received,          \* results the result loop received, in order
    readFailed,        \* a source read failed with a non-EOF error
    uploadFailed,      \* some uploadPart call returned an error
    chanLog,           \* channel operations so far: close(partChan) and
                       \* close(resultChan) calls, who closed resultChan, and
                       \* whether a send hit a closed channel (a panic)
    createReq,         \* the fields of the CreateMultipartUploadInput sent
    stored,            \* S3Storage.Put: the values written under the key, in
                       \* order (the last one is the stored object)
    putters,           \* S3Storage.Put: the concurrent Put calls on the key
    proxy,             \* lifecycleProxy: mu, storage, err, ready
    callers,           \* lifecycleProxy: the goroutines calling Put on it
    hook               \* lifecycleProxy: the OnStart hook

vars == << requested, uploadToken, srcLen, partSize, concurrency, ctxDone, pcU, err, parts, ret,
           partChan, partChanClosed, resultChan, resultChanClosed,
           chunker, workers, createCalls, completeCalls, abortCalls,
           completeParts, completeReq, putCalls, emitted, started, received,
           readFailed, uploadFailed, chanLog, createReq, stored, putters,
           proxy, callers, hook >>

putVars == << stored, putters >>
proxyVars == << proxy, callers, hook >>

----------------------------------------------------------------------------
\* Values

Err(kind, part) == [kind |-> kind, part |-> part]
NoErr == Err("nil", 0)
\* ctx.Err() as the worker sends it
CtxErr == Err("ctx", 0)
\* MapS3Error of a context error inside a store call (ErrAborted / ErrTimeout)
MapS3CtxErr(op, part) == Err("ctx_" \o op, part)
\* MapS3Error of any other store error
MapS3Error(op, part) == Err(op, part)

IsCancelKind(e) == e.kind \in {"ctx", "ctx_upload_part", "ctx_complete_multipart",
                               "ctx_create_multipart"}

\* The part tag the store returns for a payload uploaded under a part number.
ETagOf(partNumber, size) == << partNumber, size >>
EmptyETag == << >>

EmptyStat == [key |-> "", size |-> 0, etag |-> ""]

\* cfg.Concurrency*2: capacity of partChan and of resultChan
ChanCap == concurrency * 2


----------------------------------------------------------------------------
\* Pure functions

Min(a, b) == IF a < b THEN a ELSE b

\* io.ReadFull(src, buffer) at offset pos with len(buffer) = size; fails says
\* the underlying reader returns a non-EOF error during this call.
ReadFull(pos, size, fails) ==
    LET avail == srcLen - pos
        n == Min(size, avail)
    IN  IF fails THEN [n |-> 0, err |-> "ioerr"]
        ELSE IF n = size THEN [n |-> n, err |-> "nil"]
        ELSE IF n = 0 THEN [n |-> 0, err |-> "EOF"]
        ELSE [n |-> n, err |-> "ErrUnexpectedEOF"]

Swap(s, i, j) == [s EXCEPT ![i] = s[j], ![j] = s[i]]

\* the inner loop from j on. (The slice is bound as a value, ps, so that each
\* iteration evaluates it once.)
RECURSIVE SortInner(_, _, _)
SortInner(s, i, j) ==
    LET Iteration(ps) ==
            IF j > Len(ps) THEN ps
            ELSE SortInner(IF ps[i].partNumber > ps[j].partNumber
                           THEN Swap(ps, i, j) ELSE ps,
                           i, j + 1)
    IN  CHOOSE r \in {Iteration(ps) : ps \in {s}} : TRUE

\* the outer loop from i on
RECURSIVE SortOuter(_, _)
SortOuter(s, i) ==
    LET Iteration(ps) ==
            IF i > Len(ps) - 1 THEN ps
            ELSE SortOuter(SortInner(ps, i, i + 1), i + 1)
    IN  CHOOSE r \in {Iteration(ps) : ps \in {s}} : TRUE

NoSort(s) == s

\* uploadParts: "Sort parts by part number to ensure correct order"
SortParts(s) == SortOuter(s, 1)

\* Upload: etags[i] = part.ETag
ETags(ps) == [i \in 1 .. Len(ps) |-> ps[i].etag]

\* completion entries numbered from the end of the list
CompletedPartsReversed(etags) ==
    [i \in 1 .. Len(etags) |-> [partNumber |-> Len(etags) + 1 - i, etag |-> etags[i]]]

\* CompleteMultipart: parts[i] = CompletedPart{ETag: etag, PartNumber: i + 1}
CompletedParts(etags) ==
    [i \in 1 .. Len(etags) |-> [partNumber |-> i, etag |-> etags[i]]]

\* The payload size the store holds under a part tag.
SizeOfTag(etag) == etag[2]

\* Size of the object the store assembles from the completed parts (what Head
\* reports after CompleteMultipartUpload).
RECURSIVE ObjectSize(_)
ObjectSize(cps) ==
    IF cps = << >> THEN 0 ELSE SizeOfTag(Head(cps).etag) + ObjectSize(Tail(cps))

NoTask == [partNumber |-> 0, size |-> 0]
NoResult == [partNumber |-> 0, etag |-> EmptyETag, err |-> NoErr]
NoRet == [stat |-> EmptyStat, msg |-> "", cause |-> NoErr]

\* n goroutines in state ws
NCopies(ws, n) == [x \in {ws} |-> n]

\* the bag b after one goroutine in state old has moved to state new
Moved(b, old, new) == (b (-) SetToBag({old})) (+) SetToBag({new})

IdleWorker == [pc |-> "idle", task |-> NoTask, res |-> NoResult, late |-> FALSE]
NoChanLog == [partCloses |-> 0, resultCloses |-> 0, resultClosedBy |-> {},
              sendOnClosed |-> FALSE]
\* close(partChan)
LogClosePart(log) == [log EXCEPT !.partCloses = @ + 1]
\* close(resultChan) by the goroutine who
LogCloseResult(log, who) ==
    [log EXCEPT !.resultCloses = @ + 1, !.resultClosedBy = @ \cup {who}]
\* ch <- v on a channel whose closed flag is closed
LogSend(log, closed) == [log EXCEPT !.sendOnClosed = @ \/ closed]

IdleChunker == [pc |-> "idle", partNumber |-> 1, pos |-> 0, n |-> 0, err |-> "nil",
                exit |-> ""]

\* a lifecycleProxy as provideS3Storage makes it: &lifecycleProxy{}
NewProxy == [writer |-> 0, readers |-> 0, storage |-> "nil", err |-> "nil",
             ready |-> "nil", closes |-> 0]

\* no Put call on the key, no proxy in use
NoPut == stored = << >> /\ putters = << >>
IdleHook == [pc |-> "idle", outcome |-> "none"]
NoProxyUse == proxy = NewProxy /\ callers = << >> /\ hook = IdleHook

----------------------------------------------------------------------------
\* Initial state: a call MultipartUpload(ctx, key, src, cfg, putOpts) about to
\* enter Upload, for every source length, part size and concurrency in bounds.

Init ==
    /\ srcLen \in 0 .. MaxLen
    /\ partSize \in 1 .. MaxPartSize
    /\ concurrency \in 1 .. MaxConc
    /\ uploadToken = "token"
    /\ requested = [nil |-> FALSE, PartSizeBytes |-> partSize,
                    Concurrency |-> concurrency, UploadToken |-> uploadToken]
    /\ ctxDone = FALSE
    /\ pcU = "create"
    /\ err = NoErr
    /\ parts = << >>
    /\ ret = NoRet
    /\ partChan = << >>
    /\ partChanClosed = FALSE
    /\ resultChan = << >>
    /\ resultChanClosed = FALSE
    /\ chunker = IdleChunker
    /\ workers = NCopies(IdleWorker, concurrency)
    /\ createCalls = 0
    /\ completeCalls = 0
    /\ abortCalls = 0
    /\ completeParts = << >>
    /\ completeReq = << >>
    /\ putCalls = 0
    /\ emitted = << >>
    /\ started = << >>
    /\ received = << >>
    /\ readFailed = FALSE
    /\ uploadFailed = FALSE
    /\ chanLog = NoChanLog
    /\ createReq = {}
    /\ NoPut
    /\ NoProxyUse

storeVars == << createCalls, completeCalls, abortCalls, completeParts, completeReq,
                putCalls, createReq >>
inputVars == << requested, uploadToken, srcLen, partSize, concurrency >>
sessionVars == << pcU, err, parts, ret, received >>

----------------------------------------------------------------------------
\* The caller's context

\* The caller cancels ctx, or its deadline passes, while the call is running
\* and has not completed the upload (after a successful CompleteMultipart no
\* code of the call reads ctx any more).
Cancel ==
    /\ ~ctxDone
    /\ \/ pcU \in {"create", "collect", "complete"}
       \/ pcU = "deferred" /\ err # NoErr
    /\ ctxDone' = TRUE
    /\ UNCHANGED << inputVars, sessionVars, storeVars, partChan, partChanClosed,
                    resultChan, resultChanClosed, chunker, workers, emitted,
                    started, readFailed, uploadFailed >>
    /\ UNCHANGED chanLog
    /\ UNCHANGED << putVars, proxyVars >>

----------------------------------------------------------------------------
\* chunkReader

\* return from chunkReader: the deferred close(partChan) runs
ChunkerReturn(why) ==
    /\ chunker' = [chunker EXCEPT !.pc = "done", !.exit = why]
    /\ partChanClosed' = TRUE
    /\ chanLog' = LogClosePart(chanLog)

\* chunkReader: if n == 0 { return }
NoMoreDataNever(n) == FALSE
NoMoreData(n) == n = 0

\* outer select, case <-ctx.Done(): return
ChunkerCancelled ==
    /\ chunker.pc = "select"
    /\ ctxDone
    /\ ChunkerReturn("cancel")
    /\ UNCHANGED << inputVars, ctxDone, sessionVars, storeVars, partChan,
                    resultChan, resultChanClosed, workers, emitted, started,
                    readFailed, uploadFailed >>
    /\ UNCHANGED << putVars, proxyVars >>

\* outer select, default: io.ReadFull and the checks that follow it
ChunkerRead ==
    /\ chunker.pc = "select"
    /\ ~ctxDone
    /\ \E fails \in BOOLEAN :
         LET r == ReadFull(chunker.pos, partSize, fails)
         IN  IF r.err \notin {"nil", "ErrUnexpectedEOF", "EOF"}
             THEN /\ ChunkerReturn("readerr")
                  /\ readFailed' = TRUE
             ELSE IF NoMoreData(r.n)
             THEN /\ ChunkerReturn("eof")
                  /\ UNCHANGED readFailed
             ELSE /\ chunker' = [chunker EXCEPT !.pc = "send", !.n = r.n,
                                                 !.err = r.err,
                                                 !.pos = chunker.pos + r.n]
                  /\ UNCHANGED << partChanClosed, readFailed, chanLog >>
    /\ UNCHANGED << inputVars, ctxDone, sessionVars, storeVars, partChan,
                    resultChan, resultChanClosed, workers, emitted, started,
                    uploadFailed >>
    /\ UNCHANGED << putVars, proxyVars >>

\* inner select, case <-ctx.Done(): return
ChunkerSendCancelled ==
    /\ chunker.pc = "send"
    /\ ctxDone
    /\ ChunkerReturn("cancel")
    /\ UNCHANGED << inputVars, ctxDone, sessionVars, storeVars, partChan,
                    resultChan, resultChanClosed, workers, emitted, started,
                    readFailed, uploadFailed >>
    /\ UNCHANGED << putVars, proxyVars >>

PartChanAlwaysRoom == TRUE

\* a send on partChan can proceed: the buffer (cfg.Concurrency*2) has a free slot
PartChanHasRoom == Len(partChan) < ChanCap

\* inner select, case partChan <- task: partNumber++, then the EOF check
ChunkerSend ==
    /\ chunker.pc = "send"
    /\ PartChanHasRoom
    /\ LET task == [partNumber |-> chunker.partNumber, size |-> chunker.n]
       IN  /\ partChan' = Append(partChan, task)
           /\ emitted' = Append(emitted, task)
    /\ IF chunker.err \in {"EOF", "ErrUnexpectedEOF"}
       THEN /\ chunker' = [chunker EXCEPT !.pc = "done", !.exit = "eof",
                                           !.partNumber = chunker.partNumber + 1]
            /\ partChanClosed' = TRUE
            /\ chanLog' = LogClosePart(LogSend(chanLog, partChanClosed))
       ELSE /\ chunker' = [chunker EXCEPT !.pc = "select",
                                           !.partNumber = chunker.partNumber + 1]
            /\ chanLog' = LogSend(chanLog, partChanClosed)
            /\ UNCHANGED partChanClosed
    /\ UNCHANGED << inputVars, ctxDone, sessionVars, storeVars, resultChan,
                    resultChanClosed, workers, started, readFailed, uploadFailed >>
    /\ UNCHANGED << putVars, proxyVars >>

----------------------------------------------------------------------------
\* partUploadWorker

otherThanWorkers == << inputVars, ctxDone, sessionVars, storeVars, chunker,
                       emitted, readFailed >>

\* select, case <-ctx.Done(): the worker goes on to send ctx.Err()
WorkerCtxDone(ws) ==
    /\ ws.pc = "select"
    /\ ctxDone
    /\ workers' = Moved(workers, ws, [ws EXCEPT !.pc = "sendctx"])
    /\ UNCHANGED << otherThanWorkers, partChan, partChanClosed, resultChan,
                    resultChanClosed, started, uploadFailed >>
    /\ UNCHANGED chanLog
    /\ UNCHANGED << putVars, proxyVars >>

\* a worker that leaves on ctx.Done() without reporting
WorkerSendCtxSilent(ws) ==
    /\ ws.pc = "sendctx"
    /\ workers' = Moved(workers, ws, [ws EXCEPT !.pc = "done"])
    /\ UNCHANGED << otherThanWorkers, partChan, partChanClosed, resultChan,
                    resultChanClosed, started, uploadFailed >>
    /\ UNCHANGED chanLog
    /\ UNCHANGED << putVars, proxyVars >>

\* resultChan <- partUploadResult{err: ctx.Err()}; return (wg.Done)
WorkerSendCtx(ws) ==
    /\ ws.pc = "sendctx"
    /\ Len(resultChan) < ChanCap
    /\ resultChan' = Append(resultChan, [partNumber |-> 0, etag |-> EmptyETag,
                                         err |-> CtxErr])
    /\ chanLog' = LogSend(chanLog, resultChanClosed)
    /\ workers' = Moved(workers, ws, [ws EXCEPT !.pc = "done"])
    /\ UNCHANGED << otherThanWorkers, partChan, partChanClosed, resultChanClosed,
                    started, uploadFailed >>
    /\ UNCHANGED << putVars, proxyVars >>

\* a receive that leaves the task in the channel
WorkerTakePeek(ws) ==
    /\ ws.pc = "select"
    /\ partChan # << >>
    /\ workers' = Moved(workers, ws, [ws EXCEPT !.pc = "uploading",
                                                 !.task = Head(partChan),
                                                 !.late = ctxDone])
    /\ started' = Append(started, Head(partChan).partNumber)
    /\ UNCHANGED << otherThanWorkers, partChan, partChanClosed, resultChan,
                    resultChanClosed, uploadFailed >>
    /\ UNCHANGED chanLog
    /\ UNCHANGED << putVars, proxyVars >>

\* select, case task, ok := <-partChan with ok: uploadPart is called
WorkerTake(ws) ==
    /\ ws.pc = "select"
    /\ partChan # << >>
    /\ workers' = Moved(workers, ws, [ws EXCEPT !.pc = "uploading",
                                                 !.task = Head(partChan),
                                                 !.late = ctxDone])
    /\ partChan' = Tail(partChan)
    /\ started' = Append(started, Head(partChan).partNumber)
    /\ UNCHANGED << otherThanWorkers, partChanClosed, resultChan, resultChanClosed,
                    uploadFailed >>
    /\ UNCHANGED chanLog
    /\ UNCHANGED << putVars, proxyVars >>

\* a worker that closes resultChan itself when it returns
WorkerExitCloses(ws) ==
    /\ ws.pc = "select"
    /\ partChan = << >>
    /\ partChanClosed
    /\ workers' = Moved(workers, ws, [ws EXCEPT !.pc = "done"])
    /\ resultChanClosed' = TRUE
    /\ chanLog' = LogCloseResult(chanLog, "worker")
    /\ UNCHANGED << otherThanWorkers, partChan, partChanClosed, resultChan,
                    started, uploadFailed >>
    /\ UNCHANGED << putVars, proxyVars >>

\* select, case task, ok := <-partChan with !ok: return (wg.Done)
WorkerExit(ws) ==
    /\ ws.pc = "select"
    /\ partChan = << >>
    /\ partChanClosed
    /\ workers' = Moved(workers, ws, [ws EXCEPT !.pc = "done"])
    /\ UNCHANGED << otherThanWorkers, partChan, partChanClosed, resultChan,
                    resultChanClosed, started, uploadFailed >>
    /\ UNCHANGED chanLog
    /\ UNCHANGED << putVars, proxyVars >>

\* What client.UploadPart(ctx, ...) can return: a call issued under a context
\* that is already done fails with the context's error; a call in flight
\* succeeds, fails at the store, or fails because ctx was cancelled meanwhile.
UploadPartOutcomes(late, done) ==
    IF late THEN {"ctx"}
    ELSE IF done THEN {"ok", "fail", "ctx"}
    ELSE {"ok", "fail"}

\* uploadPart: the etag on success, MapS3Error(err, "upload_part", key) otherwise
uploadPart(task, outcome) ==
    IF outcome = "ok"
    THEN [partNumber |-> task.partNumber,
          etag |-> ETagOf(task.partNumber, task.size), err |-> NoErr]
    ELSE IF outcome = "ctx"
    THEN [partNumber |-> task.partNumber, etag |-> EmptyETag,
          err |-> MapS3CtxErr("upload_part", task.partNumber)]
    ELSE [partNumber |-> task.partNumber, etag |-> EmptyETag,
          err |-> MapS3Error("upload_part", task.partNumber)]

\* uploadPart returns to the worker
WorkerUploadReturn(ws) ==
    /\ ws.pc = "uploading"
    /\ \E outcome \in UploadPartOutcomes(ws.late, ctxDone) :
         /\ workers' = Moved(workers, ws,
                             [ws EXCEPT !.pc = "sendres",
                                        !.res = uploadPart(ws.task, outcome)])
         /\ uploadFailed' = (uploadFailed \/ outcome # "ok")
    /\ UNCHANGED << otherThanWorkers, partChan, partChanClosed, resultChan,
                    resultChanClosed, started >>
    /\ UNCHANGED chanLog
    /\ UNCHANGED << putVars, proxyVars >>

\* resultChan <- partUploadResult{partNumber, etag, err}; back to the select
WorkerSendResult(ws) ==
    /\ ws.pc = "sendres"
    /\ Len(resultChan) < ChanCap
    /\ resultChan' = Append(resultChan, ws.res)
    /\ chanLog' = LogSend(chanLog, resultChanClosed)
    /\ workers' = Moved(workers, ws, [IdleWorker EXCEPT !.pc = "select"])
    /\ UNCHANGED << otherThanWorkers, partChan, partChanClosed, resultChanClosed,
                    started, uploadFailed >>
    /\ UNCHANGED << putVars, proxyVars >>

\* go func() { wg.Wait(); close(resultChan) }()
CloseResults ==
    /\ pcU # "create"
    /\ ~resultChanClosed
    /\ \A ws \in BagToSet(workers) : ws.pc = "done"
    /\ resultChanClosed' = TRUE
    /\ chanLog' = LogCloseResult(chanLog, "uploadParts")
    /\ UNCHANGED << inputVars, ctxDone, sessionVars, storeVars, partChan,
                    partChanClosed, resultChan, chunker, workers, emitted, started,
                    readFailed, uploadFailed >>
    /\ UNCHANGED << putVars, proxyVars >>

----------------------------------------------------------------------------
\* Upload and uploadParts, in the caller's goroutine

pipelineVars == << partChan, partChanClosed, resultChan, resultChanClosed,
                   chunker, workers, emitted, started, readFailed, uploadFailed >>

\* What a store call made by the session can return under ctx.
StoreOutcomes(done) == IF done THEN {"ctx"} ELSE {"ok", "fail"}

StoreErr(op, outcome) ==
    IF outcome = "ctx" THEN MapS3CtxErr(op, 0) ELSE MapS3Error(op, 0)

\* CreateMultipart(ctx, key, putOpts): the input is built from the bucket, the
\* key and putOpts. token is the upload token in effect at the call, which
\* CreateMultipart is not given.
CreateMultipartUploadInput(key, token) == {"bucket", key}

\* CreateMultipart; on an error Upload returns before the defer is set up,
\* otherwise uploadParts starts the workers and the chunk reader.
Create ==
    /\ pcU = "create"
    /\ createCalls' = createCalls + 1
    /\ createReq' = CreateMultipartUploadInput("key", uploadToken)
    /\ \E outcome \in StoreOutcomes(ctxDone) :
         IF outcome = "ok"
         THEN /\ pcU' = "collect"
              /\ workers' = NCopies([IdleWorker EXCEPT !.pc = "select"], concurrency)
              /\ chunker' = [IdleChunker EXCEPT !.pc = "select"]
              /\ UNCHANGED << err, ret >>
         ELSE /\ pcU' = "returned"
              /\ err' = StoreErr("create_multipart", outcome)
              /\ ret' = [stat |-> EmptyStat,
                         msg |-> "failed to create multipart upload",
                         cause |-> StoreErr("create_multipart", outcome)]
              /\ UNCHANGED << workers, chunker >>
    /\ UNCHANGED << inputVars, ctxDone, parts, received, completeCalls, abortCalls,
                    completeParts, completeReq, putCalls, partChan, partChanClosed,
                    resultChan, resultChanClosed, emitted, started, readFailed,
                    uploadFailed >>
    /\ UNCHANGED chanLog
    /\ UNCHANGED << putVars, proxyVars >>

\* an error return that carries a descriptor
UploadPartsFailedPartial(e) ==
    [stat |-> [key |-> "key", size |-> 0, etag |-> ""],
     msg |-> "failed to upload parts", cause |-> e]

\* Upload: if err != nil { return Stat{}, fmt.Errorf("failed to upload parts: %w", err) }
UploadPartsFailed(e) ==
    [stat |-> EmptyStat, msg |-> "failed to upload parts", cause |-> e]

\* a result loop that records the error and keeps receiving
CollectRecvNoBreak ==
    /\ pcU = "collect"
    /\ resultChan # << >>
    /\ LET result == Head(resultChan)
       IN  /\ resultChan' = Tail(resultChan)
           /\ received' = Append(received, result)
           /\ IF result.err # NoErr
              THEN /\ err' = result.err
                   /\ UNCHANGED parts
              ELSE /\ parts' = Append(parts, [partNumber |-> result.partNumber,
                                              etag |-> result.etag])
                   /\ UNCHANGED err
    /\ UNCHANGED << pcU, ret >>
    /\ UNCHANGED << inputVars, ctxDone, storeVars, partChan, partChanClosed,
                    resultChanClosed, chunker, workers, emitted, started,
                    readFailed, uploadFailed >>
    /\ UNCHANGED chanLog
    /\ UNCHANGED << putVars, proxyVars >>

\* a result loop that starts only when resultChan has been closed
CollectRecvAfterClose ==
    /\ pcU = "collect"
    /\ resultChanClosed
    /\ resultChan # << >>
    /\ LET result == Head(resultChan)
       IN  /\ resultChan' = Tail(resultChan)
           /\ received' = Append(received, result)
           /\ IF result.err # NoErr
              THEN /\ err' = result.err
                   /\ pcU' = "deferred"
                   /\ ret' = UploadPartsFailed(result.err)
                   /\ UNCHANGED parts
              ELSE /\ parts' = Append(parts, [partNumber |-> result.partNumber,
                                              etag |-> result.etag])
                   /\ UNCHANGED << err, pcU, ret >>
    /\ UNCHANGED << inputVars, ctxDone, storeVars, partChan, partChanClosed,
                    resultChanClosed, chunker, workers, emitted, started,
                    readFailed, uploadFailed, chanLog, putVars, proxyVars >>

\* for result := range resultChan: one received result. An error result sets
\* uploadErr and breaks: uploadParts returns it and Upload returns the wrapped
\* error, with the deferred cleanup still to run.
CollectRecv ==
    /\ pcU = "collect"
    /\ resultChan # << >>
    /\ LET result == Head(resultChan)
       IN  /\ resultChan' = Tail(resultChan)
           /\ received' = Append(received, result)
           /\ IF result.err # NoErr
              THEN /\ err' = result.err
                   /\ pcU' = "deferred"
                   /\ ret' = UploadPartsFailed(result.err)
                   /\ UNCHANGED parts
              ELSE /\ parts' = Append(parts, [partNumber |-> result.partNumber,
                                              etag |-> result.etag])
                   /\ UNCHANGED << err, pcU, ret >>
    /\ UNCHANGED << inputVars, ctxDone, storeVars, partChan, partChanClosed,
                    resultChanClosed, chunker, workers, emitted, started,
                    readFailed, uploadFailed >>
    /\ UNCHANGED chanLog
    /\ UNCHANGED << putVars, proxyVars >>

\* the range loop ends: resultChan is closed and drained. uploadParts sorts
\* the parts and returns them (or uploadErr, when one was recorded).
CollectDone ==
    /\ pcU = "collect"
    /\ resultChan = << >>
    /\ resultChanClosed
    /\ IF err # NoErr
       THEN /\ pcU' = "deferred"
            /\ ret' = UploadPartsFailed(err)
            /\ UNCHANGED parts
       ELSE /\ pcU' = "complete"
            /\ parts' = SortParts(parts)
            /\ UNCHANGED ret
    /\ UNCHANGED << err, received >>
    /\ UNCHANGED << inputVars, ctxDone, storeVars, pipelineVars >>
    /\ UNCHANGED chanLog
    /\ UNCHANGED << putVars, proxyVars >>

\* CompleteMultipart(ctx, key, uploadID, etags): CompleteMultipartUpload, then
\* Head for the descriptor, with the fallback Stat{Key, ETag} when Head fails.
Complete ==
    /\ pcU = "complete"
    /\ completeCalls' = completeCalls + 1
    /\ completeParts' = parts
    /\ completeReq' = CompletedParts(ETags(parts))
    /\ \E outcome \in StoreOutcomes(ctxDone), headOk \in BOOLEAN :
         IF outcome = "ok"
         THEN /\ UNCHANGED err
              /\ ret' = [stat |-> IF headOk
                                  THEN [key |-> "key",
                                        size |-> ObjectSize(CompletedParts(ETags(parts))),
                                        etag |-> "etag"]
                                  ELSE [key |-> "key", size |-> 0, etag |-> "etag"],
                         msg |-> "", cause |-> NoErr]
         ELSE /\ err' = StoreErr("complete_multipart", outcome)
              /\ ret' = [stat |-> EmptyStat,
                         msg |-> "failed to complete multipart upload",
                         cause |-> StoreErr("complete_multipart", outcome)]
    /\ pcU' = "deferred"
    /\ UNCHANGED << parts, received, createCalls, abortCalls, putCalls, createReq >>
    /\ UNCHANGED << inputVars, ctxDone, pipelineVars >>
    /\ UNCHANGED chanLog
    /\ UNCHANGED << putVars, proxyVars >>

NeverAbort(e) == FALSE

\* a cleanup that leaves the session alone when the completion failed
AbortUnlessCompleteFailed(e) ==
    e # NoErr /\ e.kind \notin {"complete_multipart", "ctx_complete_multipart"}

\* the deferred func: if err != nil
AbortNeeded(e) == e # NoErr

\* what the deferred AbortMultipart(ctx, key, uploadID) returns, "none" when
\* it is not called
AbortOutcomes(e, done) == IF AbortNeeded(e) THEN StoreOutcomes(done) ELSE {"none"}

\* a cleanup whose failure becomes the call's error
AbortErrorReturned(r, outcome) ==
    IF outcome \in {"fail", "ctx"}
    THEN [r EXCEPT !.msg = "failed to abort multipart upload",
                   !.cause = StoreErr("abort_multipart", outcome)]
    ELSE r

\* what Upload returns once the deferred func has run: abortErr is passed to
\* logger.Warn only, and Upload's results are unnamed, so the values of the
\* return statement stand
AfterDeferred(r, outcome) == r

\* Upload's deferred cleanup runs and Upload returns. AbortMultipart's own
\* error is only logged.
Deferred ==
    /\ pcU = "deferred"
    /\ pcU' = "returned"
    /\ abortCalls' = IF AbortNeeded(err) THEN abortCalls + 1 ELSE abortCalls
    /\ \E outcome \in AbortOutcomes(err, ctxDone) : ret' = AfterDeferred(ret, outcome)
    /\ UNCHANGED << err, parts, received, createCalls, completeCalls,
                    completeParts, completeReq, putCalls, createReq >>
    /\ UNCHANGED << inputVars, ctxDone, pipelineVars >>
    /\ UNCHANGED chanLog
    /\ UNCHANGED << putVars, proxyVars >>

----------------------------------------------------------------------------

Next ==
    \/ Cancel
    \/ Create
    \/ ChunkerCancelled
    \/ ChunkerRead
    \/ ChunkerSendCancelled
    \/ ChunkerSend
    \/ \E ws \in BagToSet(workers) : WorkerCtxDone(ws)
    \/ \E ws \in BagToSet(workers) : WorkerSendCtx(ws)
    \/ \E ws \in BagToSet(workers) : WorkerTake(ws)
    \/ \E ws \in BagToSet(workers) : WorkerExit(ws)
    \/ \E ws \in BagToSet(workers) : WorkerUploadReturn(ws)
    \/ \E ws \in BagToSet(workers) : WorkerSendResult(ws)
    \/ CloseResults
    \/ CollectRecv
    \/ CollectDone
    \/ Complete
    \/ Deferred

Spec == Init /\ [][Next]_vars

----------------------------------------------------------------------------
\* S3Storage.MultipartUpload: the validation of cfg that precedes Upload,
\* as a specification of its own over requested configurations (sizes in MiB).

\* cfg.PartSizeBytes unchanged
PlanPartSizeNoClamp(p) == p

\* if cfg.PartSizeBytes < 5<<20 { cfg.PartSizeBytes = 5 << 20 }
PlanPartSize(p) == IF p < MinPartSizeMiB THEN MinPartSizeMiB ELSE p

\* if cfg.Concurrency <= 0 { cfg.Concurrency = 4 }
PlanConcurrency(c) == IF c <= 0 THEN FallbackConcurrency ELSE c

\* if cfg.UploadToken == "" { cfg.UploadToken = uuid.New().String() }
PlanToken(t) == IF t = "" THEN "uuid" ELSE t

\* Config.GetMultipartConfig() of the default configuration
GetMultipartConfig ==
    [nil |-> FALSE, PartSizeBytes |-> DefaultPartSizeMiB,
     Concurrency |-> DefaultParallel, UploadToken |-> ""]

\* part sizes around zero, the minimum and the maximum
RequestedPartSizes ==
    (0 .. MaxDelta)
    \cup ((MinPartSizeMiB - MaxDelta) .. (MinPartSizeMiB + MaxDelta))
    \cup ((S3MaxPartSizeMiB - MaxDelta) .. (S3MaxPartSizeMiB + MaxDelta))

RequestedConfigs ==
    [nil : {FALSE}, PartSizeBytes : RequestedPartSizes,
     Concurrency : (0 - MaxConc) .. MaxConc, UploadToken : {"", "token"}]
    \cup {[nil |-> TRUE, PartSizeBytes |-> 0, Concurrency |-> 0, UploadToken |-> ""]}

PlanInit ==
    /\ requested \in RequestedConfigs
    /\ partSize = requested.PartSizeBytes
    /\ concurrency = requested.Concurrency
    /\ uploadToken = requested.UploadToken
    /\ srcLen = 0
    /\ ctxDone = FALSE
    /\ pcU = "plan"
    /\ err = NoErr
    /\ parts = << >>
    /\ ret = NoRet
    /\ partChan = << >>
    /\ partChanClosed = FALSE
    /\ resultChan = << >>
    /\ resultChanClosed = FALSE
    /\ chunker = IdleChunker
    /\ workers = EmptyBag
    /\ createCalls = 0
    /\ completeCalls = 0
    /\ abortCalls = 0
    /\ completeParts = << >>
    /\ completeReq = << >>
    /\ putCalls = 0
    /\ emitted = << >>
    /\ started = << >>
    /\ received = << >>
    /\ readFailed = FALSE
    /\ uploadFailed = FALSE
    /\ chanLog = NoChanLog
    /\ createReq = {}
    /\ NoPut
    /\ NoProxyUse

\* MultipartUpload up to the call of uploader.Upload: cfg (the default
\* configuration's when nil) is validated in place.
Plan ==
    /\ pcU = "plan"
    /\ LET cfg == IF requested.nil THEN GetMultipartConfig
                  ELSE [requested EXCEPT !.PartSizeBytes = partSize,
                                         !.Concurrency = concurrency,
                                         !.UploadToken = uploadToken]
       IN  /\ partSize' = PlanPartSize(cfg.PartSizeBytes)
           /\ concurrency' = PlanConcurrency(cfg.Concurrency)
           /\ uploadToken' = PlanToken(cfg.UploadToken)
    /\ pcU' = "planned"
    /\ UNCHANGED << requested, srcLen, ctxDone, err, parts, ret, received,
                    storeVars, pipelineVars >>
    /\ UNCHANGED chanLog
    /\ UNCHANGED << putVars, proxyVars >>

PlanNext == Plan

PlanSpec == PlanInit /\ [][PlanNext]_vars

----------------------------------------------------------------------------
\* S3Storage.Put on one key, called concurrently

\* no MultipartUpload call in progress
NoUpload ==
    /\ requested = [nil |-> TRUE, PartSizeBytes |-> 0, Concurrency |-> 0,
                    UploadToken |-> ""]
    /\ partSize = 0
    /\ concurrency = 0
    /\ uploadToken = ""
    /\ srcLen = 0
    /\ ctxDone = FALSE
    /\ pcU = "none"
    /\ err = NoErr
    /\ parts = << >>
    /\ ret = NoRet
    /\ partChan = << >>
    /\ partChanClosed = FALSE
    /\ resultChan = << >>
    /\ resultChanClosed = FALSE
    /\ chunker = IdleChunker
    /\ workers = EmptyBag
    /\ createCalls = 0
    /\ completeCalls = 0
    /\ abortCalls = 0
    /\ completeParts = << >>
    /\ completeReq = << >>
    /\ putCalls = 0
    /\ emitted = << >>
    /\ started = << >>
    /\ received = << >>
    /\ readFailed = FALSE
    /\ uploadFailed = FALSE
    /\ chanLog = NoChanLog
    /\ createReq = {}

uploadVars == << inputVars, ctxDone, sessionVars, storeVars, pipelineVars, chanLog >>

Putters == 1 .. MaxPutters

\* a Put call about to start; Overwrite is opts.Overwrite (true when opts is nil)
NewPut(overwrite) == [pc |-> "start", Overwrite |-> overwrite, ret |-> "none"]

\* the object stored under the key when the calls start: 0 is an object that
\* was there before, and a Put's number stands for the data it writes
PutInit ==
    /\ NoUpload
    /\ NoProxyUse
    /\ stored \in {<< >>, << 0 >>}
    /\ putters \in [Putters -> {NewPut(o) : o \in BOOLEAN}]

\* objectExists: HeadObject finds the key when something is stored under it
objectExists(st) == st # << >>

\* Put up to the PutObject call: with !opts.Overwrite, objectExists decides
\* between ErrConflict, the HeadObject error, and going on
PutCheck(p) ==
    /\ putters[p].pc = "start"
    /\ IF putters[p].Overwrite
       THEN putters' = [putters EXCEPT ![p].pc = "put"]
       ELSE \E outcome \in {"ok", "fail"} :
              putters' = [putters EXCEPT ![p] =
                  IF outcome = "fail" THEN [@ EXCEPT !.pc = "done", !.ret = "error"]
                  ELSE IF objectExists(stored)
                  THEN [@ EXCEPT !.pc = "done", !.ret = "ErrConflict"]
                  ELSE [@ EXCEPT !.pc = "put"]]
    /\ UNCHANGED << stored, uploadVars, proxyVars >>

\* io.ReadAll and PutObject: the data replaces whatever the key holds
PutObject(p) ==
    /\ putters[p].pc = "put"
    /\ \E outcome \in {"ok", "fail"} :
         IF outcome = "ok"
         THEN /\ stored' = Append(stored, p)
              /\ putters' = [putters EXCEPT ![p].pc = "done", ![p].ret = "ok"]
         ELSE /\ putters' = [putters EXCEPT ![p].pc = "done", ![p].ret = "error"]
              /\ UNCHANGED stored
    /\ UNCHANGED << uploadVars, proxyVars >>

PutNext ==
    \/ \E p \in Putters : PutCheck(p)
    \/ \E p \in Putters : PutObject(p)

PutSpec == PutInit /\ [][PutNext]_vars

----------------------------------------------------------------------------
\* Runs in which nothing fails: the source is readable, the store accepts every
\* call, and ctx is never cancelled. The goroutines are scheduled fairly.

\* Upload is about to be entered and nothing has happened yet
AtEntry ==
    /\ uploadToken = "token"
    /\ requested = [nil |-> FALSE, PartSizeBytes |-> partSize,
                    Concurrency |-> concurrency, UploadToken |-> uploadToken]
    /\ ctxDone = FALSE
    /\ pcU = "create"
    /\ err = NoErr
    /\ parts = << >>
    /\ ret = NoRet
    /\ partChan = << >>
    /\ partChanClosed = FALSE
    /\ resultChan = << >>
    /\ resultChanClosed = FALSE
    /\ chunker = IdleChunker
    /\ workers = NCopies(IdleWorker, concurrency)
    /\ createCalls = 0
    /\ completeCalls = 0
    /\ abortCalls = 0
    /\ completeParts = << >>
    /\ completeReq = << >>
    /\ putCalls = 0
    /\ emitted = << >>
    /\ started = << >>
    /\ received = << >>
    /\ readFailed = FALSE
    /\ uploadFailed = FALSE
    /\ chanLog = NoChanLog
    /\ createReq = {}
    /\ NoPut
    /\ NoProxyUse

OkInit ==
    /\ srcLen \in 0 .. MaxOkLen
    /\ partSize \in 1 .. MaxPartSize
    /\ concurrency \in 1 .. MaxConc
    /\ AtEntry

\* nothing has failed and ctx is live
OkRun == ~ctxDone /\ ~readFailed /\ ~uploadFailed /\ err = NoErr

OkCreate == Create /\ OkRun'
OkChunkerRead == ChunkerRead /\ OkRun'
OkWorkerTake == \E ws \in BagToSet(workers) : WorkerTake(ws)
OkWorkerExit == \E ws \in BagToSet(workers) : WorkerExit(ws)
OkWorkerUploadReturn == \E ws \in BagToSet(workers) : WorkerUploadReturn(ws) /\ OkRun'
OkWorkerSendResult == \E ws \in BagToSet(workers) : WorkerSendResult(ws)
OkComplete == Complete /\ OkRun'

OkNext ==
    \/ OkCreate
    \/ OkChunkerRead
    \/ ChunkerSend
    \/ OkWorkerTake
    \/ OkWorkerExit
    \/ OkWorkerUploadReturn
    \/ OkWorkerSendResult
    \/ CloseResults
    \/ CollectRecv
    \/ CollectDone
    \/ OkComplete
    \/ Deferred

\* the scheduler keeps running goroutines: while some goroutine can take a
\* step, a step is eventually taken (weaker than fairness to each goroutine)
OkFair == WF_vars(OkNext)

OkSpec == OkInit /\ [][OkNext]_vars /\ OkFair

----------------------------------------------------------------------------
\* Runs in which anything may fail and ctx may be cancelled, with the
\* goroutines scheduled fairly.

FailInit ==
    /\ srcLen \in 0 .. MaxFailLen
    /\ partSize \in 1 .. MaxPartSize
    /\ concurrency \in 1 .. MaxConc
    /\ AtEntry

\* a step of the program (the caller's cancellation is not one)
ProgramStep == Next /\ UNCHANGED ctxDone

\* while some goroutine can take a step, a step is eventually taken; the
\* caller is not obliged to cancel
FailFair == WF_vars(ProgramStep)

FailSpec == FailInit /\ [][Next]_vars /\ FailFair

----------------------------------------------------------------------------
\* lifecycleProxy: goroutines calling Put on the proxy while the OnStart hook
\* runs. proxy.writer is the goroutine holding mu.Lock (0 when none),
\* proxy.readers the number of mu.RLock holders.

Callers == 1 .. MaxCallers
\* the goroutine running the OnStart hook
HookId == MaxCallers + 1

NewCaller == [pc |-> "init", blocked |-> FALSE, err |-> "nil", s |-> "nil",
              ret |-> "none"]

ProxyInit ==
    /\ NoUpload
    /\ NoPut
    /\ proxy = NewProxy
    /\ callers = [c \in Callers |-> NewCaller]
    /\ hook = IdleHook

\* p.mu.Lock() can be taken
CanLock == proxy.writer = 0 /\ proxy.readers = 0
\* p.mu.RLock() can be taken
CanRLock == proxy.writer = 0

\* init(): the body under p.mu.Lock()
InitBody(p, g) ==
    [p EXCEPT !.writer = g,
              !.ready = IF p.ready = "nil" THEN "open" ELSE p.ready]

\* wait(): p.init(), up to the deferred Unlock
CallerInitLock(c) ==
    /\ callers[c].pc = "init"
    /\ CanLock
    /\ proxy' = InitBody(proxy, c)
    /\ callers' = [callers EXCEPT ![c].pc = "init_unlock"]
    /\ UNCHANGED << hook, uploadVars, putVars >>

\* init() returns; the caller arrives at <-p.ready
CallerInitUnlock(c) ==
    /\ callers[c].pc = "init_unlock"
    /\ proxy' = [proxy EXCEPT !.writer = 0]
    /\ callers' = [callers EXCEPT ![c].pc = "recv",
                                  ![c].blocked = proxy.ready # "closed"]
    /\ UNCHANGED << hook, uploadVars, putVars >>

\* a receive that does not wait for the channel to be closed
ReceiveAtOnce(ready) == TRUE

\* <-p.ready returns: only a closed channel lets the receive through (nothing
\* is ever sent on it; a nil channel blocks forever)
ReceiveReady(ready) == ready = "closed"

\* wait(): <-p.ready, p.mu.RLock(), read p.err
CallerRecv(c) ==
    /\ callers[c].pc = "recv"
    /\ ReceiveReady(proxy.ready)
    /\ callers' = [callers EXCEPT ![c].pc = "rlock"]
    /\ UNCHANGED << proxy, hook, uploadVars, putVars >>

CallerRLock(c) ==
    /\ callers[c].pc = "rlock"
    /\ CanRLock
    /\ proxy' = [proxy EXCEPT !.readers = @ + 1]
    /\ callers' = [callers EXCEPT ![c].pc = "runlock", ![c].err = proxy.err]
    /\ UNCHANGED << hook, uploadVars, putVars >>

\* wait() returns p.err (deferred RUnlock); Put returns it when it is not nil
CallerRUnlock(c) ==
    /\ callers[c].pc = "runlock"
    /\ proxy' = [proxy EXCEPT !.readers = @ - 1]
    /\ callers' = [callers EXCEPT ![c] =
                     IF callers[c].err # "nil"
                     THEN [callers[c] EXCEPT !.pc = "done", !.ret = callers[c].err]
                     ELSE [callers[c] EXCEPT !.pc = "get"]]
    /\ UNCHANGED << hook, uploadVars, putVars >>

\* get(): p.mu.RLock(); s := p.storage
CallerGetRLock(c) ==
    /\ callers[c].pc = "get"
    /\ CanRLock
    /\ proxy' = [proxy EXCEPT !.readers = @ + 1]
    /\ callers' = [callers EXCEPT ![c].pc = "get_runlock", ![c].s = proxy.storage]
    /\ UNCHANGED << hook, uploadVars, putVars >>

\* get(): p.mu.RUnlock(); return s
CallerGetRUnlock(c) ==
    /\ callers[c].pc = "get_runlock"
    /\ proxy' = [proxy EXCEPT !.readers = @ - 1]
    /\ callers' = [callers EXCEPT ![c].pc = "delegate"]
    /\ UNCHANGED << hook, uploadVars, putVars >>

\* p.get().Put(ctx, key, r, opts): a method call on a nil Storage panics
CallerDelegate(c) ==
    /\ callers[c].pc = "delegate"
    /\ callers' = [callers EXCEPT ![c].pc = "done",
                                  ![c].ret = IF callers[c].s = "nil" THEN "panic"
                                             ELSE "delegated"]
    /\ UNCHANGED << proxy, hook, uploadVars, putVars >>

\* OnStart: s, err := NewS3Storage(ctx, cfg, opts...)
HookStart ==
    /\ hook.pc = "idle"
    /\ \E outcome \in {"ok", "err"} :
         hook' = [pc |-> "init", outcome |-> outcome]
    /\ UNCHANGED << proxy, callers, uploadVars, putVars >>

\* setStorage / setErr: p.init()
HookInitLock ==
    /\ hook.pc = "init"
    /\ CanLock
    /\ proxy' = InitBody(proxy, HookId)
    /\ hook' = [hook EXCEPT !.pc = "init_unlock"]
    /\ UNCHANGED << callers, uploadVars, putVars >>

HookInitUnlock ==
    /\ hook.pc = "init_unlock"
    /\ proxy' = [proxy EXCEPT !.writer = 0]
    /\ hook' = [hook EXCEPT !.pc = "set"]
    /\ UNCHANGED << callers, uploadVars, putVars >>

\* setStorage: p.mu.Lock(); p.storage = s; close(p.ready)
\* setErr:     p.mu.Lock(); p.err = err;   close(p.ready)
HookSet ==
    /\ hook.pc = "set"
    /\ CanLock
    /\ proxy' = [proxy EXCEPT !.writer = HookId,
                              !.storage = IF hook.outcome = "ok" THEN "s3" ELSE @,
                              !.err = IF hook.outcome = "err" THEN "startup error" ELSE @,
                              !.ready = "closed",
                              !.closes = @ + 1]
    /\ hook' = [hook EXCEPT !.pc = "set_unlock"]
    /\ UNCHANGED << callers, uploadVars, putVars >>

\* p.mu.Unlock(); OnStart returns
HookSetUnlock ==
    /\ hook.pc = "set_unlock"
    /\ proxy' = [proxy EXCEPT !.writer = 0]
    /\ hook' = [hook EXCEPT !.pc = "done"]
    /\ UNCHANGED << callers, uploadVars, putVars >>

ProxyNext ==
    \/ \E c \in Callers : CallerInitLock(c)
    \/ \E c \in Callers : CallerInitUnlock(c)
    \/ \E c \in Callers : CallerRecv(c)
    \/ \E c \in Callers : CallerRLock(c)
    \/ \E c \in Callers : CallerRUnlock(c)
    \/ \E c \in Callers : CallerGetRLock(c)
    \/ \E c \in Callers : CallerGetRUnlock(c)
    \/ \E c \in Callers : CallerDelegate(c)
    \/ HookStart
    \/ HookInitLock
    \/ HookInitUnlock
    \/ HookSet
    \/ HookSetUnlock

ProxySpec == ProxyInit /\ [][ProxyNext]_vars

----------------------------------------------------------------------------
\* Claims

Created == chunker.pc # "idle"
Returned == pcU = "returned"
CreateFailed == Returned /\ ~Created

Ceil(a, b) == (a + b - 1) \div b

\* the first failed result of a sequence of results (NoResult when none failed)
RECURSIVE FirstFailed(_)
FirstFailed(rs) ==
    IF rs = << >> THEN NoResult
    ELSE IF Head(rs).err # NoErr THEN Head(rs)
    ELSE FirstFailed(Tail(rs))

FailureSeen == FirstFailed(received) # NoResult

C2_ReadErrorAborts ==
    (Returned /\ readFailed) =>
        (abortCalls = 1 /\ completeCalls = 0 /\ ret.cause # NoErr)

\* C3: if any uploadPart call fails, the call aborts, never completes, and
\* returns an error wrapping the first failed result the collector received;
\* failures produced or received later never replace it.
C3_FirstFailureWins ==
    (Returned /\ uploadFailed) =>
        /\ abortCalls = 1
        /\ completeCalls = 0
        /\ FailureSeen
        /\ ret = [stat |-> EmptyStat, msg |-> "failed to upload parts",
                  cause |-> FirstFailed(received).err]

\* C3 witness: the call returned the first failure received while another,
\* different failed result was produced later and waits in resultChan.
C3_Witness ==
    /\ Returned
    /\ uploadFailed
    /\ FailureSeen
    /\ \E i \in 1 .. Len(resultChan) :
         /\ resultChan[i].err # NoErr
         /\ resultChan[i].err # ret.cause

\* C4: once the collector has received the first failed part result (a failed
\* uploadPart, in a run the caller has not cancelled), the chunker emits no
\* new task and no worker starts a further uploadPart call.
C4_FailureCancelsPipeline ==
    [][(FirstFailed(received).err.kind = "upload_part" /\ ~ctxDone')
         => (emitted' = emitted /\ started' = started)]_vars

\* C5: if the caller's context is cancelled before the upload has completed,
\* the call aborts, does not call completeUpload and returns a
\* cancellation-kind error.
C5_CancelAborts ==
    (Returned /\ Created /\ ctxDone) =>
        (abortCalls = 1 /\ completeCalls = 0 /\ IsCancelKind(ret.cause))

\* C6: once the cancellation signal is set, the chunker sends no further task
\* and no worker begins a further uploadPart call.
C6_NoNewWorkAfterCancel ==
    [][ctxDone => (emitted' = emitted /\ started' = started)]_vars

\* C7: for an empty input the chunker emits no task and the session does not
\* call completeUpload: it issues one zero-byte put and aborts the multipart
\* session it had created.
C7_EmptyInputBypass ==
    (Returned /\ Created /\ srcLen = 0 /\ ~readFailed /\ ~ctxDone) =>
        (emitted = << >> /\ completeCalls = 0 /\ putCalls = 1 /\ abortCalls = 1)

\* C8: whatever order the results reached the collector in, the list passed to
\* completeUpload is in ascending part-number order with part numbers exactly
\* 1..n, and the request pairs position i with the tag of part i.
C8_CompleteSorted ==
    completeCalls = 1 =>
        /\ Len(completeReq) = Len(completeParts)
        /\ \A i \in 1 .. Len(completeParts) :
             /\ completeParts[i].partNumber = i
             /\ completeReq[i] = [partNumber |-> i, etag |-> completeParts[i].etag]

\* C8 witness: completeUpload was called after the results arrived out of
\* part-number order.
C8_Witness ==
    /\ completeCalls = 1
    /\ Len(received) >= 2
    /\ received[1].partNumber > received[2].partNumber

\* C9: whenever completeUpload is called, the number of tags passed equals the
\* number of tasks the chunker emitted, and every emitted part is in the list
\* with the tag of its successful upload.
C9_CompleteCountsEmitted ==
    completeCalls = 1 =>
        /\ Len(completeReq) = Len(emitted)
        /\ \A i \in 1 .. Len(emitted) :
             \E j \in 1 .. Len(completeParts) :
                completeParts[j] =
                    [partNumber |-> emitted[i].partNumber,
                     etag |-> ETagOf(emitted[i].partNumber, emitted[i].size)]

\* C9 witness: completeUpload was called with two or more tags in a run whose
\* context was cancelled.
C9_Witness ==
    completeCalls = 1 /\ ctxDone /\ Len(completeReq) >= 2

\* C10: the k-th task emitted carries part number k and partSize bytes, only
\* the task that ends the input may be shorter and none is empty, in every
\* run; a chunker that ran to the end of the input without read error or
\* cancellation has emitted exactly ceil(srcLen / partSize) tasks.
C10_ChunkNumbering ==
    /\ \A k \in 1 .. Len(emitted) :
         /\ emitted[k].partNumber = k
         /\ emitted[k].size = Min(partSize, srcLen - (k - 1) * partSize)
         /\ emitted[k].size >= 1
    /\ (chunker.pc = "done" /\ chunker.exit = "eof")
         => Len(emitted) = Ceil(srcLen, partSize)

\* C10 witness: the chunker reached the end of an input that is not a multiple
\* of the part size, after a full part and a shorter last one.
C10_Witness ==
    /\ chunker.pc = "done"
    /\ chunker.exit = "eof"
    /\ Len(emitted) >= 2
    /\ emitted[Len(emitted)].size < partSize

\* every result sent on resultChan so far, in order
AllResults == received \o resultChan

\* the number of worker goroutines whose state satisfies P
CountWorkers(P(_)) ==
    LET S == {ws \in BagToSet(workers) : P(ws)}
    IN  BagCardinality([ws \in S |-> CopiesIn(ws, workers)])

HoldsTask(ws) == ws.task # NoTask
IsUploading(ws) == ws.pc = "uploading"
IsDone(ws) == ws.pc = "done"

PipelineQuiet ==
    /\ chunker.pc = "done"
    /\ \A ws \in BagToSet(workers) : ws.pc = "done"

\* C11: every result produced belongs to an emitted task and carries its part
\* number, no task has two results, and once the chunker and all workers have
\* exited every emitted task has its result.
C11_OneResultPerTask ==
    /\ \A i \in 1 .. Len(AllResults) :
         \E k \in 1 .. Len(emitted) :
            emitted[k].partNumber = AllResults[i].partNumber
    /\ \A i, j \in 1 .. Len(AllResults) :
         i # j => AllResults[i].partNumber # AllResults[j].partNumber
    /\ PipelineQuiet => Len(AllResults) = Len(emitted)

C14_NoPartialSuccess ==
    Returned =>
        \/ ret.cause = NoErr /\ ret.stat # EmptyStat
        \/ ret.cause # NoErr /\ ret.stat = EmptyStat

\* C14 witness: the call returned an error after some parts had been uploaded
\* and collected.
C14_Witness ==
    Returned /\ ret.cause # NoErr /\ Len(parts) >= 1

\* C15: when the call returns a nil error for a source of srcLen bytes that
\* was read without error, the descriptor's Size is srcLen.
C15_SizeMatchesInput ==
    (Returned /\ ret.cause = NoErr /\ ~readFailed) => ret.stat.size = srcLen

\* C16: planning never fails and yields a usable plan: a part size below the
\* minimum becomes the minimum, a concurrency <= 0 becomes 4, other values
\* are left as requested, so part size >= 5 MiB and concurrency >= 1.
C16_PlanClamps ==
    /\ pcU = "plan" => ENABLED Plan
    /\ pcU = "planned" =>
         LET req == IF requested.nil THEN GetMultipartConfig ELSE requested
         IN  /\ partSize >= MinPartSizeMiB
             /\ concurrency >= 1
             /\ req.PartSizeBytes < MinPartSizeMiB => partSize = MinPartSizeMiB
             /\ req.PartSizeBytes >= MinPartSizeMiB => partSize = req.PartSizeBytes
             /\ req.Concurrency <= 0 => concurrency = 4
             /\ req.Concurrency > 0 => concurrency = req.Concurrency

\* C16 witness: a planned request whose part size was below the minimum and
\* whose concurrency was negative.
C16_Witness ==
    /\ pcU = "planned"
    /\ ~requested.nil
    /\ requested.PartSizeBytes < MinPartSizeMiB
    /\ requested.Concurrency < 0

\* C17: the effective part size never exceeds the store maximum (5 GiB): a
\* larger requested part size is clamped down.
C17_PartSizeCapped ==
    pcU = "planned" => partSize <= S3MaxPartSizeMiB

\* the chunk payloads alive: queued tasks, tasks held by workers, and the copy
\* the chunker holds while it waits to send
Payloads ==
    Len(partChan) + CountWorkers(HoldsTask) + (IF chunker.pc = "send" THEN 1 ELSE 0)

\* C18: at most 2*N tasks are queued, at most N uploadPart calls are in
\* flight, and at most 3*N + 1 chunk payloads exist at once.
C18_BoundedBuffers ==
    /\ Len(partChan) <= 2 * concurrency
    /\ CountWorkers(IsUploading) <= concurrency
    /\ Payloads <= 3 * concurrency + 1

\* C18 witness: the task channel is full and the chunker waits with the next
\* payload instead of reading ahead.
C18_Witness ==
    /\ Created
    /\ Len(partChan) = 2 * concurrency
    /\ chunker.pc = "send"

\* C20: no part number is uploaded twice in a session, and every uploadPart
\* call is for an emitted task.
C20_NoDoubleUpload ==
    /\ \A i, j \in 1 .. Len(started) : i # j => started[i] # started[j]
    /\ \A i \in 1 .. Len(started) :
         \E k \in 1 .. Len(emitted) : emitted[k].partNumber = started[i]

\* C20 witness: with two workers, an uploadPart call has failed and a further
\* part was started.
C20_Witness ==
    /\ concurrency >= 2
    /\ uploadFailed
    /\ Len(started) >= 2
    /\ \E i \in 1 .. Len(AllResults) : AllResults[i].err.kind = "upload_part"

\* C13: when the deferred abortUpload has run, the call returns the error that
\* caused the abort, whatever abortUpload itself returned: never a nil error,
\* never the abort's error, never a descriptor.
C13_AbortFailureKeepsError ==
    (Returned /\ abortCalls >= 1) =>
        /\ ret.cause = err
        /\ ret.cause # NoErr
        /\ ret.cause.kind \notin {"abort_multipart", "ctx_abort_multipart"}
        /\ ret.msg \in {"failed to upload parts", "failed to complete multipart upload"}
        /\ ret.stat = EmptyStat

\* C13 witness: a part upload failed, the context was cancelled before the
\* deferred abortUpload ran (so abortUpload failed with the context's error),
\* and the call has returned.
C13_Witness ==
    /\ Returned
    /\ abortCalls = 1
    /\ ctxDone
    /\ err.kind = "upload_part"

C21_TokenSentWithCreate ==
    createCalls >= 1 => uploadToken \in createReq

\* C22: a Put with Overwrite=false writes only to a key that holds nothing
\* (so it never replaces an object, and an object that was there stays), and
\* at most one Put with Overwrite=false on the key succeeds.
C22_NoOverwriteWithoutFlag ==
    /\ \A i \in 1 .. Len(stored) :
         (stored[i] # 0 /\ ~putters[stored[i]].Overwrite) => i = 1
    /\ Cardinality({p \in Putters : ~putters[p].Overwrite /\ putters[p].ret = "ok"}) <= 1

\* C23: when nothing fails and ctx stays live, the call eventually calls
\* completeUpload once and returns a nil error, with the chunker and every
\* worker returned and both channels closed.
C23_EventuallyCompletes ==
    <>(/\ Returned
       /\ completeCalls = 1
       /\ abortCalls = 0
       /\ ret.cause = NoErr
       /\ Len(completeReq) = Ceil(srcLen, partSize)
       /\ PipelineQuiet
       /\ partChanClosed
       /\ resultChanClosed)

\* C23 witness: the call has returned from an upload of more parts than
\* partChan and resultChan hold together.
C23_Witness ==
    /\ Returned
    /\ ret.cause = NoErr
    /\ Len(completeReq) > 2 * ChanCap
    /\ PipelineQuiet

\* the result loop has met a failed result and left the loop
Abandoned == FailureSeen

\* every pipeline goroutine has returned: chunkReader, the workers, and the
\* goroutine that closes resultChan
GoroutinesGone == PipelineQuiet /\ partChanClosed /\ resultChanClosed

\* C24: after the result loop has abandoned the pipeline on a failed result
\* (a part failure or a cancellation), chunkReader, every worker and the
\* goroutine closing resultChan eventually return.
C24_GoroutinesTerminate == Abandoned ~> GoroutinesGone

\* C25: if the call returns a nil error, parts 1..ceil(srcLen/partSize) were
\* all uploaded successfully and all appear, in order, in the completion list.
C25_NoSilentTruncation ==
    (Returned /\ ret.cause = NoErr) =>
        /\ Len(completeReq) = Ceil(srcLen, partSize)
        /\ \A i \in 1 .. Len(completeReq) :
             /\ completeReq[i].partNumber = i
             /\ \E k \in 1 .. Len(received) :
                  received[k].partNumber = i /\ received[k].err = NoErr

\* C26: once abortUpload has been issued, no uploadPart call is started.
C26_NoUploadAfterAbort ==
    [][abortCalls >= 1 => started' = started]_vars

\* C27: whenever completeUpload is called, the entry sent as part number i
\* carries the tag uploadPart returned for the payload of task i.
C27_TagsKeepTheirNumbers ==
    completeCalls >= 1 =>
        \A i \in 1 .. Len(completeReq) :
            /\ completeReq[i].partNumber = i
            /\ i <= Len(emitted)
            /\ emitted[i].partNumber = i
            /\ completeReq[i].etag = ETagOf(i, emitted[i].size)

\* C27 witness: completeUpload was called with three parts whose results had
\* arrived out of order.
C27_Witness ==
    /\ completeCalls = 1
    /\ Len(completeReq) >= 3
    /\ \E j \in 1 .. Len(received) - 1 :
         received[j].partNumber > received[j + 1].partNumber

\* C28: abortUpload is never issued under a context that is already done.
C28_AbortUnderLiveContext ==
    [][abortCalls' > abortCalls => ~ctxDone]_vars

\* the struct the caller's cfg pointer refers to: the one MultipartUpload's
\* cfg points to and assigns through, unless the caller passed nil
CallerConfig ==
    IF requested.nil THEN requested
    ELSE [requested EXCEPT !.PartSizeBytes = partSize,
                           !.Concurrency = concurrency,
                           !.UploadToken = uploadToken]

\* C29: after MultipartUpload's planning the caller's MultipartConfig holds the
\* values the caller passed.
C29_CallerConfigUntouched ==
    pcU = "planned" => CallerConfig = requested

\* the caller has got past <-p.ready in wait()
PastReady(c) == callers[c].pc \in {"rlock", "runlock", "get", "get_runlock",
                                   "delegate", "done"}

\* C30: a call gets past the wait only after setStorage or setErr has closed
\* ready; after setErr it returns the startup error and does not delegate;
\* after setStorage it delegates to the real, non-nil storage; ready is closed
\* at most once.
C30_ProxyWaitsForStartup ==
    /\ proxy.closes <= 1
    /\ \A c \in Callers :
         /\ PastReady(c) =>
              /\ proxy.ready = "closed"
              /\ hook.pc \in {"set_unlock", "done"}
         /\ (PastReady(c) /\ hook.outcome = "err") =>
              /\ callers[c].pc \in {"rlock", "runlock", "done"}
              /\ callers[c].pc = "done" => callers[c].ret = "startup error"
         /\ (PastReady(c) /\ hook.outcome = "ok") =>
              /\ callers[c].pc \in {"delegate", "done"} => callers[c].s = "s3"
              /\ callers[c].pc = "done" => callers[c].ret = "delegated"

\* C30 witness: one call that had to wait for startup has delegated to the
\* real storage, and so has a call that found ready already closed.
C30_Witness ==
    \E c, d \in Callers :
       /\ callers[c].pc = "done" /\ callers[c].blocked /\ callers[c].ret = "delegated"
       /\ callers[d].pc = "done" /\ ~callers[d].blocked /\ callers[d].ret = "delegated"

====
